---- MODULE Spec2Model ----
(***************************************************************************)
(* Model of the LINE webhook bot of src/server.js: the quotes loading      *)
(* block, getRandomQuote, the /webhook route and handleEvent.              *)
(*                                                                         *)
(* A JavaScript string is modelled as the sequence of its characters.      *)
(* Literal texts that the code only compares or concatenates as a whole    *)
(* (URL schemes, the "/Photos/" prefix, host names, file names, the fixed  *)
(* reply texts) are one element of such a sequence; message texts and      *)
(* generated texts, which the code trims, splits and measures, are given   *)
(* character by character, each character written as its code point:       *)
(*   u9662 院  u9577 長  uFF0C ，  u597D 好  u91D1 金  u53E5 句  u8A9E 語  u9304 錄   *)
(*   u7F77 罷  u514D 免  u97D3 韓  u570B 國  u745C 瑜  u611B 愛  u8A71 話  u6848 案   *)
(*   u7532 甲  u4E59 乙  u4E19 丙  u4E01 丁  u620A 戊  u5DF1 己  u5E9A 庚  u8F9B 辛   *)
(*   u58EC 壬  u7678 癸  u5B50 子                                               *)
(*                                                                         *)
(* handleEvent is an async function: every action below is one run of it   *)
(* from the settling of the call it awaits to the next await (or to its    *)
(* return), which is how the JavaScript event loop schedules it.           *)
(***************************************************************************)
EXTENDS Integers, Sequences, FiniteSets, TLC

VARIABLES
    quotesFile,       \* quotes.json as found on disk at startup
    koreanYuQuotes,   \* the global quote array (server.js:36)
    photoBaseUrl,     \* process.env.PHOTO_BASE_URL (server.js:23)
    events,           \* req.body.events of the webhook request
    h,                \* h[i]: the activation of handleEvent for events[i]
    res               \* the webhook's HTTP answer: "pending", "200" or "500"

vars == <<quotesFile, koreanYuQuotes, photoBaseUrl, events, h, res>>

\* Longest photo list the photo API returns in the model.
MaxPhotos == 2

-----------------------------------------------------------------------------
(* String helpers: String.prototype.trim, startsWith, substring, includes,  *)
(* split(','), replace(first occurrence).                                   *)

IsSpace(c) == c = " "

RECURSIVE TrimStart(_)
TrimStart(s) ==
    IF s # <<>> /\ IsSpace(Head(s)) THEN TrimStart(Tail(s)) ELSE s

RECURSIVE TrimEnd(_)
TrimEnd(s) ==
    IF s # <<>> /\ IsSpace(s[Len(s)]) THEN TrimEnd(SubSeq(s, 1, Len(s) - 1)) ELSE s

Trim(s) == TrimEnd(TrimStart(s))

StartsWith(s, p) == Len(s) >= Len(p) /\ SubSeq(s, 1, Len(p)) = p

\* s.substring(n)
Substring(s, n) == SubSeq(s, n + 1, Len(s))

Includes(s, sub) ==
    \E i \in 1..(Len(s) - Len(sub) + 1) : SubSeq(s, i, i + Len(sub) - 1) = sub

RECURSIVE SplitFrom(_, _)
SplitFrom(s, cur) ==
    IF s = <<>> THEN <<cur>>
    ELSE IF Head(s) = "," THEN <<cur>> \o SplitFrom(Tail(s), <<>>)
    ELSE SplitFrom(Tail(s), Append(cur, Head(s)))

\* s.split(',')
Split(s) == SplitFrom(s, <<>>)

\* s.replace(from, to) with a string pattern: the first occurrence only
ReplaceFirst(s, from, to) ==
    LET at == {i \in 1..(Len(s) - Len(from) + 1) : SubSeq(s, i, i + Len(from) - 1) = from}
    IN  IF at = {} THEN s
        ELSE LET i == CHOOSE k \in at : \A j \in at : k <= j
             IN  SubSeq(s, 1, i - 1) \o to \o SubSeq(s, i + Len(from), Len(s))

\* arr.map(k => k.trim())
TrimAll(arr) == [k \in 1..Len(arr) |-> Trim(arr[k])]

Min(a, b) == IF a <= b THEN a ELSE b

RECURSIVE SeqsUpTo(_, _)
SeqsUpTo(S, n) ==
    IF n = 0 THEN {<<>>}
    ELSE LET prev == SeqsUpTo(S, n - 1)
         IN  prev \cup {Append(p, x) : p \in {q \in prev : Len(q) = n - 1}, x \in S}

-----------------------------------------------------------------------------
(* Literals of server.js                                                    *)

defaultFallbackQuote == <<"quote:default">>

GreetingCommand == <<"u9662", "u9577", "u597D">>
LeadInComma == <<"u9662", "u9577", "uFF0C">>
LeadInSpace == <<"u9662", "u9577", " ">>
LeadInLength == 3
QuoteCommands == {LeadInComma \o <<"u91D1", "u53E5">>, LeadInComma \o <<"u8A9E", "u9304">>}
SpecialTag == <<"u7F77", "u514D">>
DeniedPhrase == <<"u97D3", "u570B", "u745C">>
PhotosPrefix == <<"/Photos/">>
HttpsScheme == <<"https://">>
HttpScheme == <<"http://">>
SupportedSources == {"user", "group", "room"}
TagMaxKeywords == 3
MaxKeywordLength == 6

\* the fixed reply texts, each one element
NoPhotosText == <<"text:no-photos">>
PathFormatErrorText == <<"text:bad-path-format">>
GreetingErrorText == <<"text:greeting-error">>
GreetingErrorStatusText == <<"text:greeting-error-status">>
GreetingNoResponseText == <<"text:greeting-no-response">>
SpecialTopicText == <<"text:special-topic">>

\* the templated reply texts
TagErrorText(tag) == <<"text:tag-error<">> \o tag \o <<">other">>
TagErrorStatusText(tag) == <<"text:tag-error<">> \o tag \o <<">error-status">>
TagNoResponseText(tag) == <<"text:tag-error<">> \o tag \o <<">no-response">>
FallbackText(topic) == <<"text:fallback<">> \o topic \o <<">">>

\* the characters of [一-龥] and [0-9] that the sampled texts use
Ideographs ==
    {"u7532", "u4E59", "u4E19", "u4E01", "u620A", "u5DF1", "u5E9A", "u8F9B", "u58EC",
     "u7678", "u5B50", "u97D3", "u570B", "u745C", "u611B", "u7F77", "u514D", "u597D",
     "u8A71", "u9662", "u9577", "u6848", "u91D1", "u53E5", "u8A9E", "u9304"}
Digits == {"0", "1", "2", "3", "4", "5", "6", "7", "8", "9"}

-----------------------------------------------------------------------------
(* Message payloads handed to client.replyMessage                           *)

ImageMessage(url) ==
    [type |-> "image", originalContentUrl |-> url, previewImageUrl |-> url, text |-> <<>>]
TextMessage(t) ==
    [type |-> "text", originalContentUrl |-> <<>>, previewImageUrl |-> <<>>, text |-> t]

-----------------------------------------------------------------------------
(* What the environment supplies                                            *)

\* quotes.json: absent, unparsable, a JSON value that is no array, or an array
QuoteFiles ==
    { [exists |-> FALSE, json |-> "none", items |-> <<>>],
      [exists |-> TRUE, json |-> "invalid", items |-> <<>>],
      [exists |-> TRUE, json |-> "object", items |-> <<>>],
      [exists |-> TRUE, json |-> "array", items |-> <<>>],
      [exists |-> TRUE, json |-> "array", items |-> << <<"q1">>, <<"q2">> >>] }

BaseUrls == { <<"https://", "cdn">>, <<"http://", "cdn">>, <<"cdn">> }

\* photo records of the photo API: two with a valid path, one with a path
\* outside /Photos/, one without a path, and a null element
PA == [null |-> FALSE, hasPath |-> TRUE, path |-> <<"/Photos/", "a.jpg">>]
PB == [null |-> FALSE, hasPath |-> TRUE, path |-> <<"/Photos/", "b.jpg">>]
PBad == [null |-> FALSE, hasPath |-> TRUE, path |-> <<"/tmp/", "c.jpg">>]
PNoPath == [null |-> FALSE, hasPath |-> FALSE, path |-> <<>>]
PNull == [null |-> TRUE, hasPath |-> FALSE, path |-> <<>>]
PhotoRecords == {PA, PB, PBad, PNoPath, PNull}
PhotoLists == SeqsUpTo(PhotoRecords, MaxPhotos)

\* outcome of axios.get: a response with data (an array, or null), or an
\* error with .response, with .request only, or with neither
FetchErrors == {"errResponse", "errRequest", "errOther"}
SearchResponses ==
    {[kind |-> "ok", data |-> d] : d \in PhotoLists}
    \cup {[kind |-> k, data |-> <<>>] : k \in {"null"} \cup FetchErrors}

\* raw texts of the generative model (before trim)
GenTexts ==
    { <<>>,
      <<" ">>,
      <<"u7532", ",", " ", "u4E59">>,
      <<"u7532", ",", ",", "u4E59", ",", "u4E19", ",", "u4E01">>,
      DeniedPhrase \o <<",", "u611B">> \o DeniedPhrase \o <<",", "u7532">>,
      <<"a", "b", ",", "u7532">>,
      <<"u7532", "u4E59", "u4E19", "u4E01", "u620A", "u5DF1", "u5E9A", ",", "9">>,
      <<"u7532", ",", "u7532">>,
      SpecialTag,
      <<" ", "u597D", "u8A71", " ">>,
      <<"u7532", ",", "u4E59", ",", "u4E19", ",", "u4E01", ",", "u620A", ",", "u5DF1", ",",
        "u5E9A", ",", "u8F9B", ",", "u58EC", ",", "u7678", ",", "u5B50">> }

\* outcome of model.generateContent(...) and response.text(): a text, or a throw
GenResponses ==
    {[ok |-> TRUE, text |-> t] : t \in GenTexts} \cup {[ok |-> FALSE, text |-> <<>>]}

\* event.message.text
MessageTexts ==
    { GreetingCommand,
      <<" ">> \o GreetingCommand \o <<" ">>,
      LeadInComma \o <<"u91D1", "u53E5">>,
      LeadInComma \o <<"u8A9E", "u9304">>,
      LeadInSpace \o <<"u91D1", "u53E5">>,
      LeadInComma \o SpecialTag,
      LeadInSpace \o <<" ">> \o SpecialTag \o <<" ">>,
      LeadInComma \o SpecialTag \o <<"u6848">>,
      LeadInComma,
      GreetingCommand \o <<"u8A71">>,
      SpecialTag,
      <<"a", "b">> }

SourceTypes == SupportedSources \cup {"other"}

\* an inbound event: a text message, another message, or another event type
Events ==
    {[type |-> "message", messageType |-> "text", text |-> t, sourceType |-> s] :
        t \in MessageTexts, s \in SourceTypes}
    \cup {[type |-> "message", messageType |-> "image", text |-> <<>>, sourceType |-> s] :
        s \in SourceTypes}
    \cup {[type |-> "follow", messageType |-> "none", text |-> <<>>, sourceType |-> s] :
        s \in SourceTypes}

-----------------------------------------------------------------------------
(* Quotes loading and getRandomQuote                                        *)

\* the test of line 46 without its length part: an empty array is kept
LoadQuotesKeepsEmpty(file) ==
    IF ~file.exists THEN <<defaultFallbackQuote>>
    ELSE IF file.json = "invalid" THEN <<defaultFallbackQuote>>
    ELSE IF file.json # "array" THEN <<defaultFallbackQuote>>
    ELSE file.items

LoadQuotes(file) ==
    IF ~file.exists THEN <<defaultFallbackQuote>>
    ELSE IF file.json = "invalid" THEN <<defaultFallbackQuote>>
    ELSE IF file.json # "array" \/ Len(file.items) = 0 THEN <<defaultFallbackQuote>>
    ELSE file.items

\* the values of Math.floor(Math.random() * n), as 1-based positions
RandomIndexes(n) == IF n > 0 THEN 1..n ELSE {1}

\* the default quote whatever was loaded
getRandomQuoteDefault(quotes, r) == defaultFallbackQuote

getRandomQuote(quotes, r) ==
    IF Len(quotes) = 0 THEN defaultFallbackQuote ELSE quotes[r]

-----------------------------------------------------------------------------
(* Pure parts of handleEvent                                                *)

\* the lead-in with the space left out
ExtractTagCommaOnly(messageText) ==
    IF StartsWith(messageText, LeadInComma) THEN Trim(Substring(messageText, LeadInLength))
    ELSE <<>>

\* lines 119-123; null and "" are both falsy at line 189, both are <<>> here
ExtractTag(messageText) ==
    IF StartsWith(messageText, LeadInComma) THEN Trim(Substring(messageText, LeadInLength))
    ELSE IF StartsWith(messageText, LeadInSpace) THEN Trim(Substring(messageText, LeadInLength))
    ELSE <<>>

\* the prefix test left out
PathOkAnyPath(photo) == photo.hasPath /\ photo.path # <<>>

\* !randomPhoto.path || !randomPhoto.path.startsWith('/Photos/'), negated
PathOk(photo) ==
    photo.hasPath /\ photo.path # <<>> /\ StartsWith(photo.path, PhotosPrefix)

\* the URL sent as it is
SecureUrlUnchanged(imageUrl) == imageUrl

\* imageUrl.startsWith('https://') ? imageUrl : imageUrl.replace('http://', 'https://')
SecureUrl(imageUrl) ==
    IF StartsWith(imageUrl, HttpsScheme) THEN imageUrl
    ELSE ReplaceFirst(imageUrl, HttpScheme, HttpsScheme)

ImageUrlOf(photo) == SecureUrl(photoBaseUrl \o photo.path)

\* the filter of lines 236-247
TagKeywordOk(k) ==
    /\ k # <<>>
    /\ Len(k) >= 1 /\ Len(k) <= MaxKeywordLength
    /\ ~Includes(k, DeniedPhrase)
    /\ \A n \in 1..Len(k) : k[n] \in Ideographs \cup Digits

\* lines 231-248: keywords of the tag path from the trimmed model text
TagKeywords(geminiText) ==
    IF geminiText = <<>> THEN <<>>
    ELSE LET kept == SelectSeq(TrimAll(Split(geminiText)), TagKeywordOk)
         IN  SubSeq(kept, 1, Min(TagMaxKeywords, Len(kept)))

\* the filters of lines 505 and 510
FreeKeywordOk(k) == k # <<>> /\ k # DeniedPhrase

\* lines 503-511: keywords of the free-text path from the trimmed model text
FreeKeywords(geminiText) ==
    IF geminiText = <<>> THEN <<>>
    ELSE SelectSeq(TrimAll(Split(geminiText)), FreeKeywordOk)

\* tagToSearch.includes('罷免') in place of ===
TagImageReplyIncludes(tagToSearch, photo) ==
    IF Includes(tagToSearch, SpecialTag)
    THEN <<ImageMessage(ImageUrlOf(photo)), TextMessage(SpecialTopicText)>>
    ELSE <<ImageMessage(ImageUrlOf(photo))>>

\* lines 288-304 and 403-420: the image, and the fixed text for the tag "罷免"
TagImageReply(tagToSearch, photo) ==
    IF tagToSearch = SpecialTag
    THEN <<ImageMessage(ImageUrlOf(photo)), TextMessage(SpecialTopicText)>>
    ELSE <<ImageMessage(ImageUrlOf(photo))>>

\* the texts of the two axios cases exchanged
GreetingCatchTextSwapped(kind) ==
    IF kind = "errResponse" THEN GreetingNoResponseText
    ELSE IF kind = "errRequest" THEN GreetingErrorStatusText
    ELSE GreetingErrorText

\* lines 164-175: kind is an axios error with .response, one with .request
\* only, or anything else
GreetingCatchText(kind) ==
    IF kind = "errResponse" THEN GreetingErrorStatusText
    ELSE IF kind = "errRequest" THEN GreetingNoResponseText
    ELSE GreetingErrorText

\* lines 424-439
TagCatchText(kind, tagToSearch) ==
    IF kind = "errResponse" THEN TagErrorStatusText(tagToSearch)
    ELSE IF kind = "errRequest" THEN TagNoResponseText(tagToSearch)
    ELSE TagErrorText(tagToSearch)

-----------------------------------------------------------------------------
(* One activation of handleEvent                                            *)
(*  pc          the await it is suspended at, or how it settled             *)
(*  calls       the external calls it has issued, in order; hit tells, for  *)
(*              a photo call that has returned, whether it gave the photo   *)
(*              that is replied; gen is what a generative call returned     *)
(*  inflight    the calls issued and not yet settled                        *)
(*  error       what the catch block that ends the activation caught        *)
(*  miss        why the photo search that returned last gave no photo to    *)
(*              reply and let the activation go on: "empty" (no record),    *)
(*              "error" (axios.get threw), "typeError" (the picked element  *)
(*              is null), "invalid" (the picked record's path is not        *)
(*              valid); "none" in every other case                          *)

NewActivation ==
    [pc |-> "start", messageText |-> <<>>, tagToSearch |-> <<>>, keywords |-> <<>>,
     kwIdx |-> 0, photos |-> <<>>, randomPhoto |-> PNull, error |-> "none",
     miss |-> "none", calls |-> <<>>, inflight |-> 0]

NoGen == [ok |-> FALSE, text |-> <<>>]

Call(api, arg, messages) ==
    [api |-> api, arg |-> arg, messages |-> messages, hit |-> FALSE, gen |-> NoGen]

\* issue an external call and suspend on it
Await(s, pc, call) ==
    [s EXCEPT !.pc = pc, !.calls = Append(@, call), !.inflight = @ + 1]

\* return client.replyMessage(event.replyToken, messages): the activation
\* settles as the reply call settles
replyMessage(s, messages) == Await(s, "reply", Call("line.reply", <<>>, messages))

\* return Promise.resolve(null)
Resolve(s) == [s EXCEPT !.pc = "resolved"]

\* the awaited call has settled
Settled(s, hit) ==
    [s EXCEPT !.inflight = @ - 1, !.calls[Len(s.calls)].hit = hit, !.miss = "none"]

\* the awaited generative call has settled
Generated(s, gen) ==
    [s EXCEPT !.inflight = @ - 1, !.calls[Len(s.calls)].gen = gen, !.miss = "none"]

\* the awaited photo search has settled without a photo to reply, in a branch
\* or a catch block after which the activation goes on
Missed(s, why) == [Settled(s, FALSE) EXCEPT !.miss = why]

\* how a photo search that is not answered with an image went: lines 269-312
\* and 528-568 (and 452-459, 475-478 for the direct search)
MissOf(resp, r) ==
    IF resp.kind \in FetchErrors THEN "error"
    ELSE IF resp.kind = "null" \/ Len(resp.data) = 0 THEN "empty"
    ELSE IF resp.data[r].null THEN "typeError"
    ELSE "invalid"

\* the awaited call, or the code after it, threw into a catch block that replies
Caught(s, error) == [s EXCEPT !.error = error]

\* line 106
NotTextMessage(event) == event.type # "message" \/ event.messageType # "text"

\* the source filter left out
UnsupportedSourceNever(event) == FALSE

\* only a user is a supported source
UnsupportedSourceButUser(event) == event.sourceType # "user"

\* line 110
UnsupportedSource(event) == event.sourceType \notin SupportedSources

\* the free-text branch without the test of line 445: any source is searched
BeginFreeTextOfAnySource(event, s, r) ==
    IF NotTextMessage(event) THEN Resolve(s)
    ELSE IF UnsupportedSource(event) THEN Resolve(s)
    ELSE LET messageText == Trim(event.text)
             tagToSearch == ExtractTag(messageText)
             s1 == [s EXCEPT !.messageText = messageText, !.tagToSearch = tagToSearch]
         IN  IF messageText = GreetingCommand
             THEN Await(s1, "greeting", Call("photo.list", <<>>, <<>>))
             ELSE IF messageText \in QuoteCommands
             THEN replyMessage(s1, <<TextMessage(getRandomQuote(koreanYuQuotes, r))>>)
             ELSE IF tagToSearch # <<>>
             THEN Await(s1, "tagSearch", Call("photo.search", tagToSearch, <<>>))
             ELSE Await(s1, "directSearch", Call("photo.search", messageText, <<>>))

\* lines 104-124, 126-132, 177-195, 441-454, 629-633: up to the first await
Begin(event, s, r) ==
    IF NotTextMessage(event) THEN Resolve(s)
    ELSE IF UnsupportedSource(event) THEN Resolve(s)
    ELSE LET messageText == Trim(event.text)
             tagToSearch == ExtractTag(messageText)
             s1 == [s EXCEPT !.messageText = messageText, !.tagToSearch = tagToSearch]
         IN  IF messageText = GreetingCommand
             THEN Await(s1, "greeting", Call("photo.list", <<>>, <<>>))
             ELSE IF messageText \in QuoteCommands
             THEN replyMessage(s1, <<TextMessage(getRandomQuote(koreanYuQuotes, r))>>)
             ELSE IF tagToSearch # <<>>
             THEN Await(s1, "tagSearch", Call("photo.search", tagToSearch, <<>>))
             ELSE IF event.sourceType = "user"
             THEN Await(s1, "directSearch", Call("photo.search", messageText, <<>>))
             ELSE Resolve(s1)

\* lines 132-176. A null element makes randomPhoto.path throw a TypeError,
\* which the catch of line 164 answers with the general error text.
GreetingResume(s, resp, r) ==
    IF resp.kind \in FetchErrors
    THEN replyMessage(Caught(Settled(s, FALSE), resp.kind),
                      <<TextMessage(GreetingCatchText(resp.kind))>>)
    ELSE IF resp.kind = "null" \/ Len(resp.data) = 0
    THEN replyMessage(Settled(s, FALSE), <<TextMessage(NoPhotosText)>>)
    ELSE LET randomPhoto == resp.data[r]
             s1 == [s EXCEPT !.photos = resp.data, !.randomPhoto = randomPhoto]
         IN  IF randomPhoto.null
             THEN replyMessage(Caught(Settled(s1, FALSE), "typeError"),
                               <<TextMessage(GreetingCatchText("typeError"))>>)
             ELSE IF ~PathOk(randomPhoto)
             THEN replyMessage(Settled(s1, FALSE), <<TextMessage(PathFormatErrorText)>>)
             ELSE replyMessage(Settled(s1, TRUE), <<ImageMessage(ImageUrlOf(randomPhoto))>>)

\* a loop turn that searches again the keyword of the turn before
NextKeywordSearchedAgain(s, searchPc, personaPc, topic) ==
    IF s.kwIdx < Len(s.keywords)
    THEN Await([s EXCEPT !.kwIdx = @ + 1], searchPc,
               Call("photo.search", s.keywords[IF s.kwIdx = 0 THEN 1 ELSE s.kwIdx], <<>>))
    ELSE Await(s, personaPc, Call("gemini.persona", topic, <<>>))

\* the loop's end falls off the function instead of asking for the persona line
NextKeywordNoFallback(s, searchPc, personaPc, topic) ==
    IF s.kwIdx < Len(s.keywords)
    THEN Await([s EXCEPT !.kwIdx = @ + 1], searchPc,
               Call("photo.search", s.keywords[s.kwIdx + 1], <<>>))
    ELSE Resolve(s)

\* the for loops of lines 265 and 524: search the next keyword, or, when all
\* are tried (photoFound is still false there), ask for the persona line
NextKeyword(s, searchPc, personaPc, topic) ==
    IF s.kwIdx < Len(s.keywords)
    THEN Await([s EXCEPT !.kwIdx = @ + 1], searchPc,
               Call("photo.search", s.keywords[s.kwIdx + 1], <<>>))
    ELSE Await(s, personaPc, Call("gemini.persona", topic, <<>>))

\* the branch of line 387 without its reply: an invalid pick goes on to the
\* keyword expansion, as on the free-text path
TagSearchResumeInvalidExpands(s, resp, r) ==
    IF resp.kind \in FetchErrors
    THEN replyMessage(Caught(Settled(s, FALSE), resp.kind),
                      <<TextMessage(TagCatchText(resp.kind, s.tagToSearch))>>)
    ELSE IF resp.kind = "null" \/ Len(resp.data) = 0
    THEN Await(Settled(s, FALSE), "tagKeywords", Call("gemini.keywords", s.tagToSearch, <<>>))
    ELSE LET randomPhoto == resp.data[r]
             s1 == [s EXCEPT !.photos = resp.data, !.randomPhoto = randomPhoto]
         IN  IF randomPhoto.null
             THEN replyMessage(Caught(Settled(s1, FALSE), "typeError"),
                               <<TextMessage(TagCatchText("typeError", s.tagToSearch))>>)
             ELSE IF ~PathOk(randomPhoto)
             THEN Await(Settled(s1, FALSE), "tagKeywords",
                        Call("gemini.keywords", s.tagToSearch, <<>>))
             ELSE replyMessage(Settled(s1, TRUE), TagImageReply(s.tagToSearch, randomPhoto))

\* the catch of line 424 without its reply: it goes on to the keyword expansion
TagSearchResumeErrorExpands(s, resp, r) ==
    IF resp.kind \in FetchErrors
    THEN Await(Caught(Settled(s, FALSE), resp.kind), "tagKeywords",
               Call("gemini.keywords", s.tagToSearch, <<>>))
    ELSE IF resp.kind = "null" \/ Len(resp.data) = 0
    THEN Await(Settled(s, FALSE), "tagKeywords", Call("gemini.keywords", s.tagToSearch, <<>>))
    ELSE LET randomPhoto == resp.data[r]
             s1 == [s EXCEPT !.photos = resp.data, !.randomPhoto = randomPhoto]
         IN  IF randomPhoto.null
             THEN replyMessage(Caught(Settled(s1, FALSE), "typeError"),
                               <<TextMessage(TagCatchText("typeError", s.tagToSearch))>>)
             ELSE IF ~PathOk(randomPhoto)
             THEN replyMessage(Settled(s1, FALSE), <<TextMessage(PathFormatErrorText)>>)
             ELSE replyMessage(Settled(s1, TRUE), TagImageReply(s.tagToSearch, randomPhoto))

\* lines 195-198, 379-440. A null element throws inside the try of line 191.
TagSearchResume(s, resp, r) ==
    IF resp.kind \in FetchErrors
    THEN replyMessage(Caught(Settled(s, FALSE), resp.kind),
                      <<TextMessage(TagCatchText(resp.kind, s.tagToSearch))>>)
    ELSE IF resp.kind = "null" \/ Len(resp.data) = 0
    THEN Await(Settled(s, FALSE), "tagKeywords", Call("gemini.keywords", s.tagToSearch, <<>>))
    ELSE LET randomPhoto == resp.data[r]
             s1 == [s EXCEPT !.photos = resp.data, !.randomPhoto = randomPhoto]
         IN  IF randomPhoto.null
             THEN replyMessage(Caught(Settled(s1, FALSE), "typeError"),
                               <<TextMessage(TagCatchText("typeError", s.tagToSearch))>>)
             ELSE IF ~PathOk(randomPhoto)
             THEN replyMessage(Settled(s1, FALSE), <<TextMessage(PathFormatErrorText)>>)
             ELSE replyMessage(Settled(s1, TRUE), TagImageReply(s.tagToSearch, randomPhoto))

\* the persona line asked for as soon as the keywords are there, the loop skipped
TagKeywordsResumeSkipsLoop(s, gen) ==
    LET keywords == IF gen.ok THEN TagKeywords(Trim(gen.text)) ELSE <<>>
    IN  Await([Generated(s, gen) EXCEPT !.keywords = keywords, !.kwIdx = 0],
              "tagPersona", Call("gemini.persona", s.tagToSearch, <<>>))

\* lines 225-265: the keyword answer of the model, then the first loop turn
TagKeywordsResume(s, gen) ==
    LET keywords == IF gen.ok THEN TagKeywords(Trim(gen.text)) ELSE <<>>
    IN  NextKeyword([Generated(s, gen) EXCEPT !.keywords = keywords, !.kwIdx = 0],
                    "tagKwSearch", "tagPersona", s.tagToSearch)

\* the reply of line 301/303 without its return: the loop goes on
TagKwSearchResumeNoReturn(s, resp, r) ==
    IF resp.kind # "ok" \/ Len(resp.data) = 0
    THEN NextKeyword(Missed(s, MissOf(resp, r)), "tagKwSearch", "tagPersona", s.tagToSearch)
    ELSE LET randomPhoto == resp.data[r]
         IN  IF randomPhoto.null \/ ~PathOk(randomPhoto)
             THEN NextKeyword(Missed(s, MissOf(resp, r)), "tagKwSearch", "tagPersona", s.tagToSearch)
             ELSE IF s.kwIdx < Len(s.keywords)
             THEN NextKeyword([Settled(s, TRUE) EXCEPT !.randomPhoto = randomPhoto],
                              "tagKwSearch", "tagPersona", s.tagToSearch)
             ELSE replyMessage([Settled(s, TRUE) EXCEPT !.randomPhoto = randomPhoto],
                               TagImageReply(s.tagToSearch, randomPhoto))

\* the test of line 296 made on the keyword that gave the photo
TagKwSearchResumeKeywordDecides(s, resp, r) ==
    IF resp.kind # "ok" \/ Len(resp.data) = 0
    THEN NextKeyword(Missed(s, MissOf(resp, r)), "tagKwSearch", "tagPersona", s.tagToSearch)
    ELSE LET randomPhoto == resp.data[r]
         IN  IF randomPhoto.null \/ ~PathOk(randomPhoto)
             THEN NextKeyword(Missed(s, MissOf(resp, r)), "tagKwSearch", "tagPersona", s.tagToSearch)
             ELSE replyMessage([Settled(s, TRUE) EXCEPT !.randomPhoto = randomPhoto],
                               TagImageReply(s.keywords[s.kwIdx], randomPhoto))

\* the catch of line 309 replying the error text of the tag search
TagKwSearchResumeErrorReplies(s, resp, r) ==
    IF resp.kind \in FetchErrors
    THEN replyMessage(Missed(s, MissOf(resp, r)),
                      <<TextMessage(TagCatchText(resp.kind, s.tagToSearch))>>)
    ELSE IF resp.kind # "ok" \/ Len(resp.data) = 0
    THEN NextKeyword(Missed(s, MissOf(resp, r)), "tagKwSearch", "tagPersona", s.tagToSearch)
    ELSE LET randomPhoto == resp.data[r]
         IN  IF randomPhoto.null \/ ~PathOk(randomPhoto)
             THEN NextKeyword(Missed(s, MissOf(resp, r)), "tagKwSearch", "tagPersona", s.tagToSearch)
             ELSE replyMessage([Settled(s, TRUE) EXCEPT !.randomPhoto = randomPhoto],
                               TagImageReply(s.tagToSearch, randomPhoto))

\* lines 269-313: one turn of the tag path's keyword loop
TagKwSearchResume(s, resp, r) ==
    IF resp.kind # "ok" \/ Len(resp.data) = 0
    THEN NextKeyword(Missed(s, MissOf(resp, r)), "tagKwSearch", "tagPersona", s.tagToSearch)
    ELSE LET randomPhoto == resp.data[r]
         IN  IF randomPhoto.null \/ ~PathOk(randomPhoto)
             THEN NextKeyword(Missed(s, MissOf(resp, r)), "tagKwSearch", "tagPersona", s.tagToSearch)
             ELSE replyMessage([Settled(s, TRUE) EXCEPT !.randomPhoto = randomPhoto],
                               TagImageReply(s.tagToSearch, randomPhoto))

\* the text of the model replied as it came, without .trim()
TagPersonaResumeRaw(s, gen) ==
    IF gen.ok /\ Trim(gen.text) # <<>>
    THEN replyMessage(Generated(s, gen), <<TextMessage(gen.text)>>)
    ELSE replyMessage(Caught(Generated(s, gen), "gemini"),
                      <<TextMessage(FallbackText(s.tagToSearch))>>)

\* the test of line 343 left out: a blank text is replied as it is
TagPersonaResumeBlankSent(s, gen) ==
    IF gen.ok
    THEN replyMessage(Generated(s, gen), <<TextMessage(Trim(gen.text))>>)
    ELSE replyMessage(Caught(Generated(s, gen), "gemini"),
                      <<TextMessage(FallbackText(s.tagToSearch))>>)

\* lines 339-364
TagPersonaResume(s, gen) ==
    LET geminiText == Trim(gen.text)
    IN  IF gen.ok /\ geminiText # <<>>
        THEN replyMessage(Generated(s, gen), <<TextMessage(geminiText)>>)
        ELSE replyMessage(Caught(Generated(s, gen), "gemini"),
                          <<TextMessage(FallbackText(s.tagToSearch))>>)

\* the catch of line 456 replying an error text, as the tag path does
DirectSearchResumeErrorReplies(s, resp, r) ==
    IF resp.kind \in FetchErrors
    THEN replyMessage(Missed(s, MissOf(resp, r)),
                      <<TextMessage(TagCatchText(resp.kind, s.messageText))>>)
    ELSE IF resp.kind # "ok" \/ Len(resp.data) = 0
    THEN Await(Missed(s, MissOf(resp, r)), "freeKeywords",
               Call("gemini.keywords", s.messageText, <<>>))
    ELSE LET randomPhoto == resp.data[r]
         IN  IF randomPhoto.null
             THEN replyMessage(Caught(Settled(s, FALSE), "typeError"),
                               <<TextMessage(FallbackText(s.messageText))>>)
             ELSE IF ~PathOk(randomPhoto)
             THEN Await(Missed(s, MissOf(resp, r)), "freeKeywords",
                        Call("gemini.keywords", s.messageText, <<>>))
             ELSE replyMessage(
                      [Settled(s, TRUE) EXCEPT !.photos = resp.data, !.randomPhoto = randomPhoto],
                      <<ImageMessage(ImageUrlOf(randomPhoto))>>)

\* lines 452-484, 619-628. photos is not read after the pick and is kept only
\* with the photo that is replied. A null element throws to the catch of 619.
DirectSearchResume(s, resp, r) ==
    IF resp.kind # "ok" \/ Len(resp.data) = 0
    THEN Await(Missed(s, MissOf(resp, r)), "freeKeywords",
               Call("gemini.keywords", s.messageText, <<>>))
    ELSE LET randomPhoto == resp.data[r]
         IN  IF randomPhoto.null
             THEN replyMessage(Caught(Settled(s, FALSE), "typeError"),
                               <<TextMessage(FallbackText(s.messageText))>>)
             ELSE IF ~PathOk(randomPhoto)
             THEN Await(Missed(s, MissOf(resp, r)), "freeKeywords",
                        Call("gemini.keywords", s.messageText, <<>>))
             ELSE replyMessage(
                      [Settled(s, TRUE) EXCEPT !.photos = resp.data, !.randomPhoto = randomPhoto],
                      <<ImageMessage(ImageUrlOf(randomPhoto))>>)

\* lines 496-524
FreeKeywordsResume(s, gen) ==
    LET keywords == IF gen.ok THEN FreeKeywords(Trim(gen.text)) ELSE <<>>
    IN  NextKeyword([Generated(s, gen) EXCEPT !.keywords = keywords, !.kwIdx = 0],
                    "freeKwSearch", "freePersona", s.messageText)

\* the reply of line 549 built as on the tag path, with the rule of "罷免"
FreeKwSearchResumeSpecialTopic(s, resp, r) ==
    IF resp.kind # "ok" \/ Len(resp.data) = 0
    THEN NextKeyword(Missed(s, MissOf(resp, r)), "freeKwSearch", "freePersona", s.messageText)
    ELSE LET randomPhoto == resp.data[r]
         IN  IF randomPhoto.null \/ ~PathOk(randomPhoto)
             THEN NextKeyword(Missed(s, MissOf(resp, r)), "freeKwSearch", "freePersona", s.messageText)
             ELSE replyMessage([Settled(s, TRUE) EXCEPT !.randomPhoto = randomPhoto],
                               TagImageReply(s.messageText, randomPhoto))

\* lines 528-569: one turn of the free-text path's keyword loop
FreeKwSearchResume(s, resp, r) ==
    IF resp.kind # "ok" \/ Len(resp.data) = 0
    THEN NextKeyword(Missed(s, MissOf(resp, r)), "freeKwSearch", "freePersona", s.messageText)
    ELSE LET randomPhoto == resp.data[r]
         IN  IF randomPhoto.null \/ ~PathOk(randomPhoto)
             THEN NextKeyword(Missed(s, MissOf(resp, r)), "freeKwSearch", "freePersona", s.messageText)
             ELSE replyMessage([Settled(s, TRUE) EXCEPT !.randomPhoto = randomPhoto],
                               <<ImageMessage(ImageUrlOf(randomPhoto))>>)

\* lines 593-616
FreePersonaResume(s, gen) ==
    LET geminiText == Trim(gen.text)
    IN  IF gen.ok /\ geminiText # <<>>
        THEN replyMessage(Generated(s, gen), <<TextMessage(geminiText)>>)
        ELSE replyMessage(Caught(Generated(s, gen), "gemini"),
                          <<TextMessage(FallbackText(s.messageText))>>)

\* the reply awaited inside the try block: its rejection is caught and answered
ReplyResumeCaught(s, ok) ==
    IF ok THEN [Settled(s, FALSE) EXCEPT !.pc = "resolved"]
    ELSE replyMessage(Caught(Settled(s, FALSE), "reply"),
                      <<TextMessage(FallbackText(s.messageText))>>)

\* the promise of client.replyMessage settles, and with it the activation:
\* no try block awaits it, so a rejection is the activation's rejection
ReplyResume(s, ok) ==
    [Settled(s, FALSE) EXCEPT !.pc = IF ok THEN "resolved" ELSE "rejected"]

-----------------------------------------------------------------------------
(* The system                                                               *)

EventIds == DOMAIN events

\* the positions Math.random can pick in the data of a response
Picks(resp) == IF resp.kind = "ok" THEN RandomIndexes(Len(resp.data)) ELSE {1}

Init ==
    /\ quotesFile \in QuoteFiles
    /\ koreanYuQuotes = LoadQuotes(quotesFile)
    /\ photoBaseUrl \in BaseUrls
    /\ events \in {<<e>> : e \in Events}
    /\ h = [i \in DOMAIN events |-> NewActivation]
    /\ res = "pending"

Step(i, s) ==
    /\ h' = [h EXCEPT ![i] = s]
    /\ UNCHANGED <<quotesFile, koreanYuQuotes, photoBaseUrl, events, res>>

\* the events handled one after the other, as by a loop that awaits each
\* handleEvent before it calls the next
HandleEventInTurn(i) ==
    /\ h[i].pc = "start"
    /\ \A j \in 1..(i - 1) : h[j].pc \in {"resolved", "rejected"}
    /\ \E r \in RandomIndexes(Len(koreanYuQuotes)) : Step(i, Begin(events[i], h[i], r))

\* req.body.events.map(handleEvent): the call of handleEvent for event i
HandleEvent(i) ==
    /\ h[i].pc = "start"
    /\ \E r \in RandomIndexes(Len(koreanYuQuotes)) : Step(i, Begin(events[i], h[i], r))

GreetingFetched(i) ==
    /\ h[i].pc = "greeting"
    /\ \E resp \in SearchResponses : \E r \in Picks(resp) :
          Step(i, GreetingResume(h[i], resp, r))

TagSearched(i) ==
    /\ h[i].pc = "tagSearch"
    /\ \E resp \in SearchResponses : \E r \in Picks(resp) :
          Step(i, TagSearchResume(h[i], resp, r))

TagKeywordsGenerated(i) ==
    /\ h[i].pc = "tagKeywords"
    /\ \E gen \in GenResponses : Step(i, TagKeywordsResume(h[i], gen))

TagKeywordSearched(i) ==
    /\ h[i].pc = "tagKwSearch"
    /\ \E resp \in SearchResponses : \E r \in Picks(resp) :
          Step(i, TagKwSearchResume(h[i], resp, r))

TagPersonaGenerated(i) ==
    /\ h[i].pc = "tagPersona"
    /\ \E gen \in GenResponses : Step(i, TagPersonaResume(h[i], gen))

DirectSearched(i) ==
    /\ h[i].pc = "directSearch"
    /\ \E resp \in SearchResponses : \E r \in Picks(resp) :
          Step(i, DirectSearchResume(h[i], resp, r))

FreeKeywordsGenerated(i) ==
    /\ h[i].pc = "freeKeywords"
    /\ \E gen \in GenResponses : Step(i, FreeKeywordsResume(h[i], gen))

FreeKeywordSearched(i) ==
    /\ h[i].pc = "freeKwSearch"
    /\ \E resp \in SearchResponses : \E r \in Picks(resp) :
          Step(i, FreeKwSearchResume(h[i], resp, r))

FreePersonaGenerated(i) ==
    /\ h[i].pc = "freePersona"
    /\ \E gen \in GenResponses : Step(i, FreePersonaResume(h[i], gen))

ReplySettled(i) ==
    /\ h[i].pc = "reply"
    /\ \E ok \in BOOLEAN : Step(i, ReplyResume(h[i], ok))

\* Promise.all(...).then(result => res.json(result))
WebhookOk ==
    /\ res = "pending"
    /\ \A i \in EventIds : h[i].pc = "resolved"
    /\ res' = "200"
    /\ UNCHANGED <<quotesFile, koreanYuQuotes, photoBaseUrl, events, h>>

\* the first rejection aborts the activations of the batch that still run
WebhookErrorCancels ==
    /\ res = "pending"
    /\ \E i \in EventIds : h[i].pc = "rejected"
    /\ res' = "500"
    /\ h' = [i \in EventIds |->
                IF h[i].pc \in {"resolved", "rejected"} THEN h[i]
                ELSE [h[i] EXCEPT !.pc = "rejected"]]
    /\ UNCHANGED <<quotesFile, koreanYuQuotes, photoBaseUrl, events>>

\* Promise.all(...).catch(err => res.status(500).end()): on the first rejection
WebhookError ==
    /\ res = "pending"
    /\ \E i \in EventIds : h[i].pc = "rejected"
    /\ res' = "500"
    /\ UNCHANGED <<quotesFile, koreanYuQuotes, photoBaseUrl, events, h>>

Next ==
    \/ \E i \in EventIds : HandleEvent(i)
    \/ \E i \in EventIds : GreetingFetched(i)
    \/ \E i \in EventIds : TagSearched(i)
    \/ \E i \in EventIds : TagKeywordsGenerated(i)
    \/ \E i \in EventIds : TagKeywordSearched(i)
    \/ \E i \in EventIds : TagPersonaGenerated(i)
    \/ \E i \in EventIds : DirectSearched(i)
    \/ \E i \in EventIds : FreeKeywordsGenerated(i)
    \/ \E i \in EventIds : FreeKeywordSearched(i)
    \/ \E i \in EventIds : FreePersonaGenerated(i)
    \/ \E i \in EventIds : ReplySettled(i)
    \/ WebhookOk
    \/ WebhookError

Spec == Init /\ [][Next]_vars

\* every awaited call settles, and the event loop runs what is runnable
FairSpec == Spec /\ WF_vars(Next)

-----------------------------------------------------------------------------
(* A webhook request with several events: req.body.events.map(handleEvent)  *)
(* starts one activation per event, and the activations interleave at their *)
(* awaits. The events and the answers of the photo API are drawn from small *)
(* sets, so that the product of the activations stays small.                *)

BatchSize == 2

TextEvent(text, sourceType) ==
    [type |-> "message", messageType |-> "text", text |-> text, sourceType |-> sourceType]

\* a greeting, a quote command, free text of a group, and a message without text
BatchEvents ==
    { TextEvent(GreetingCommand, "user"),
      TextEvent(LeadInComma \o <<"u91D1", "u53E5">>, "user"),
      TextEvent(<<"a", "b">>, "group"),
      [type |-> "message", messageType |-> "image", text |-> <<>>, sourceType |-> "user"] }

\* answers of the list-all call: no photo, a valid one, an invalid one, no response
BatchSearchResponses ==
    { [kind |-> "ok", data |-> <<>>],
      [kind |-> "ok", data |-> <<PA>>],
      [kind |-> "ok", data |-> <<PBad>>],
      [kind |-> "errRequest", data |-> <<>>] }

InitBatch ==
    /\ quotesFile = [exists |-> FALSE, json |-> "none", items |-> <<>>]
    /\ koreanYuQuotes = LoadQuotes(quotesFile)
    /\ photoBaseUrl = <<"https://", "cdn">>
    /\ events \in [1..BatchSize -> BatchEvents]
    /\ h = [i \in DOMAIN events |-> NewActivation]
    /\ res = "pending"

BatchGreetingFetched(i) ==
    /\ h[i].pc = "greeting"
    /\ \E resp \in BatchSearchResponses : \E r \in Picks(resp) :
          Step(i, GreetingResume(h[i], resp, r))

\* the steps of the activation of event i
BatchStep(i) == HandleEvent(i) \/ BatchGreetingFetched(i) \/ ReplySettled(i)

NextBatch ==
    \/ \E i \in EventIds : HandleEvent(i)
    \/ \E i \in EventIds : BatchGreetingFetched(i)
    \/ \E i \in EventIds : ReplySettled(i)
    \/ WebhookOk
    \/ WebhookError

BatchSpec == InitBatch /\ [][NextBatch]_vars

\* every call of every activation settles
FairBatchSpec == BatchSpec /\ \A i \in 1..BatchSize : WF_vars(BatchStep(i))

\* the calls of the first event may never return; its handleEvent is called
\* (map is synchronous), and the calls of the other events settle
HangSpec ==
    /\ BatchSpec
    /\ WF_vars(HandleEvent(1))
    /\ \A i \in 2..BatchSize : WF_vars(BatchStep(i))

-----------------------------------------------------------------------------
(* Two deliveries of one text, from two supported sources, that get the     *)
(* same answers from the photo API, the generative model, the messaging     *)
(* platform and Math.random: the two activations are resumed together, each *)
(* with the code of the await it is suspended at.                           *)

InitPair ==
    /\ quotesFile = [exists |-> TRUE, json |-> "array", items |-> << <<"q1">>, <<"q2">> >>]
    /\ koreanYuQuotes = LoadQuotes(quotesFile)
    /\ photoBaseUrl = <<"http://", "cdn">>
    /\ events \in {<<TextEvent(t, a), TextEvent(t, b)>> :
                      t \in MessageTexts, a \in SupportedSources, b \in SupportedSources}
    /\ h = [i \in DOMAIN events |-> NewActivation]
    /\ res = "pending"

\* handleEvent resumed after the photo call it awaits returned resp
ResumeSearched(s, resp, r) ==
    CASE s.pc = "greeting" -> GreetingResume(s, resp, r)
      [] s.pc = "tagSearch" -> TagSearchResume(s, resp, r)
      [] s.pc = "tagKwSearch" -> TagKwSearchResume(s, resp, r)
      [] s.pc = "directSearch" -> DirectSearchResume(s, resp, r)
      [] s.pc = "freeKwSearch" -> FreeKwSearchResume(s, resp, r)
      [] OTHER -> s

\* handleEvent resumed after the generative call it awaits returned gen
ResumeGenerated(s, gen) ==
    CASE s.pc = "tagKeywords" -> TagKeywordsResume(s, gen)
      [] s.pc = "tagPersona" -> TagPersonaResume(s, gen)
      [] s.pc = "freeKeywords" -> FreeKeywordsResume(s, gen)
      [] s.pc = "freePersona" -> FreePersonaResume(s, gen)
      [] OTHER -> s

PairStep(t) ==
    /\ h' = t
    /\ UNCHANGED <<quotesFile, koreanYuQuotes, photoBaseUrl, events, res>>

PairHandleEvent ==
    /\ \A i \in EventIds : h[i].pc = "start"
    /\ \E r \in RandomIndexes(Len(koreanYuQuotes)) :
          PairStep([i \in EventIds |-> Begin(events[i], h[i], r)])

PairSearched ==
    /\ \E i \in EventIds :
          h[i].pc \in {"greeting", "tagSearch", "tagKwSearch", "directSearch", "freeKwSearch"}
    /\ \E resp \in SearchResponses : \E r \in Picks(resp) :
          PairStep([i \in EventIds |-> ResumeSearched(h[i], resp, r)])

PairGenerated ==
    /\ \E i \in EventIds :
          h[i].pc \in {"tagKeywords", "tagPersona", "freeKeywords", "freePersona"}
    /\ \E gen \in GenResponses :
          PairStep([i \in EventIds |-> ResumeGenerated(h[i], gen)])

PairReplySettled ==
    /\ \E i \in EventIds : h[i].pc = "reply"
    /\ \E ok \in BOOLEAN :
          PairStep([i \in EventIds |->
                       IF h[i].pc = "reply" THEN ReplyResume(h[i], ok) ELSE h[i]])

NextPair == PairHandleEvent \/ PairSearched \/ PairGenerated \/ PairReplySettled

PairSpec == InitPair /\ [][NextPair]_vars

-----------------------------------------------------------------------------
(* Vocabulary of the properties                                             *)

IsReplyCall(c) == c.api = "line.reply"
IsSearchCall(c) == c.api = "photo.search"
ReplyCalls(s) == SelectSeq(s.calls, IsReplyCall)
Finished(s) == s.pc \in {"resolved", "rejected"}

\* the payloads of the one reply of an activation that has replied
Replied(s) == Len(ReplyCalls(s)) = 1
ReplyOf(s) == ReplyCalls(s)[1].messages

IsTextEvent(e) == e.type = "message" /\ e.messageType = "text"
FromSupported(e) == e.sourceType \in {"user", "group", "room"}
TrimmedText(e) == Trim(e.text)
IsGreeting(e) == IsTextEvent(e) /\ FromSupported(e) /\ TrimmedText(e) = <<"u9662", "u9577", "u597D">>
IsQuoteCommand(e) ==
    /\ IsTextEvent(e) /\ FromSupported(e)
    /\ TrimmedText(e) \in {<<"u9662", "u9577", "uFF0C", "u91D1", "u53E5">>,
                           <<"u9662", "u9577", "uFF0C", "u8A9E", "u9304">>}
\* a lead-in followed by a tag that is not blank
IsTagged(e) ==
    /\ IsTextEvent(e) /\ FromSupported(e)
    /\ ~IsGreeting(e) /\ ~IsQuoteCommand(e)
    /\ LET m == TrimmedText(e)
       IN  /\ Len(m) > 3
           /\ SubSeq(m, 1, 3) \in {<<"u9662", "u9577", "uFF0C">>, <<"u9662", "u9577", " ">>}
           /\ \E k \in 4..Len(m) : m[k] # " "
IsFreeText(e) ==
    IsTextEvent(e) /\ FromSupported(e) /\ ~IsGreeting(e) /\ ~IsQuoteCommand(e) /\ ~IsTagged(e)
\* the events the router does not suppress
ExpectsReply(e) ==
    IsGreeting(e) \/ IsQuoteCommand(e) \/ IsTagged(e) \/ (IsFreeText(e) /\ e.sourceType = "user")

\* a valid photo record: it has a path that starts with /Photos/
ValidRecord(p) == ~p.null /\ p.hasPath /\ Len(p.path) > 0 /\ p.path[1] = "/Photos/"

RECURSIVE IsSubsequence(_, _)
IsSubsequence(a, b) ==
    IF a = <<>> THEN TRUE
    ELSE IF b = <<>> THEN FALSE
    ELSE IF Head(a) = Head(b) THEN IsSubsequence(Tail(a), Tail(b))
    ELSE IsSubsequence(a, Tail(b))

\* the tag path after the tag search gave nothing: the searches of the
\* candidate keywords are the photo searches after the two first calls
TagExpanded(e, s) ==
    IsTagged(e) /\ Len(s.calls) >= 2 /\ s.calls[2].api = "gemini.keywords" /\ s.pc # "tagKeywords"
KeywordSearches(s) == SelectSeq(SubSeq(s.calls, 3, Len(s.calls)), IsSearchCall)

-----------------------------------------------------------------------------
\* C1: whatever the photo, generative and reply calls answer, an activation
\* of handleEvent calls client.replyMessage at most once.
C1_AtMostOneReply == \A i \in EventIds : Len(ReplyCalls(h[i])) <= 1

\* a reply that failed, after a failed persona generation
C1_Witness ==
    \E i \in EventIds :
        h[i].pc = "rejected" /\ h[i].error = "gemini" /\ Len(ReplyCalls(h[i])) = 1

\* C2: an event that is not suppressed (greeting, quote command, tagged
\* command, free text of a user) comes to dispatch exactly one reply when every
\* call it makes settles, and no activation ends without a reply unless the
\* event is a suppressed one.
C2_LiveEventsReply ==
    /\ [](ExpectsReply(events[1]) => <>(Finished(h[1]) /\ Len(ReplyCalls(h[1])) = 1))
    /\ [](Finished(h[1]) => (Len(ReplyCalls(h[1])) = 1 \/ ~ExpectsReply(events[1])))

\* a tagged command that went through the whole chain and replied
C2_Witness ==
    /\ IsTagged(events[1]) /\ Finished(h[1]) /\ Len(ReplyCalls(h[1])) = 1
    /\ h[1].kwIdx = 3 /\ \E k \in DOMAIN h[1].calls : h[1].calls[k].api = "gemini.persona"

\* C3: an event that is no text message, or whose source is not a user, a
\* group or a room, makes no reply, no photo call and no generative call.
C3_IgnoredEventsAreSilent ==
    \A i \in EventIds :
        (~IsTextEvent(events[i]) \/ ~FromSupported(events[i]))
            => h[i].calls = <<>> /\ h[i].pc \in {"start", "resolved"}

\* the greeting from an unsupported source, handled
C3_Witness ==
    \E i \in EventIds :
        /\ h[i].pc = "resolved"
        /\ IsTextEvent(events[i]) /\ events[i].sourceType = "other"
        /\ events[i].text = <<"u9662", "u9577", "u597D">>

\* C4: no failure of an external call (photo search, generative call, reply
\* dispatch) makes handleEvent reject, and the webhook never answers 500.
C4_NoFailureRejects ==
    /\ \A i \in EventIds : h[i].pc # "rejected"
    /\ res # "500"

\* C5: on the tag path, after an empty tag search, the candidate keywords are
\* searched one at a time in the order the model gave them; the first search
\* that gives a usable photo produces the reply, built from that photo, and no
\* later candidate is searched.
C5_FirstKeywordHitWins ==
    \A i \in EventIds :
        TagExpanded(events[i], h[i]) =>
            LET s == h[i]
                searches == KeywordSearches(s)
                n == Len(searches)
                candidates == TrimAll(Split(Trim(s.calls[2].gen.text)))
            IN  /\ n = s.kwIdx /\ n <= Len(s.keywords)
                /\ \A j \in 1..n : searches[j].arg = s.keywords[j]
                /\ IsSubsequence(s.keywords, candidates)
                /\ \A j \in 1..n : searches[j].hit => j = n
                /\ (n > 0 /\ searches[n].hit) =>
                      /\ ValidRecord(s.randomPhoto)
                      /\ Len(s.calls) = n + 3 /\ Replied(s)
                      /\ ReplyOf(s)[1].type = "image"
                      /\ ReplyOf(s)[1].originalContentUrl = SecureUrl(photoBaseUrl \o s.randomPhoto.path)
                /\ (Replied(s) /\ ReplyOf(s)[1].type = "image") => (n > 0 /\ searches[n].hit)

\* keywords [k1, k2]: the search of k1 gave nothing usable, that of k2 did
C5_Witness ==
    \E i \in EventIds :
        /\ TagExpanded(events[i], h[i])
        /\ h[i].keywords = << <<"u7532">>, <<"u4E59">> >>
        /\ LET searches == KeywordSearches(h[i])
           IN  Len(searches) = 2 /\ ~searches[1].hit /\ searches[2].hit
        /\ Replied(h[i]) /\ h[i].pc = "resolved"

-----------------------------------------------------------------------------
\* the tag of a tagged command
TagOf(e) == Trim(SubSeq(TrimmedText(e), 4, Len(TrimmedText(e))))

\* base URL + path with a leading http:// made https://
ForcedHttps(url) ==
    IF url # <<>> /\ url[1] = "http://" THEN <<"https://">> \o Tail(url) ELSE url

\* one image, and after it the fixed text exactly when the tag is "罷免"
TagImageShape(e, s) ==
    LET m == ReplyOf(s)
    IN  /\ m[1].type = "image"
        /\ m[1].originalContentUrl = ForcedHttps(photoBaseUrl \o s.randomPhoto.path)
        /\ m[1].previewImageUrl = m[1].originalContentUrl
        /\ Len(m) = (IF TagOf(e) = <<"u7F77", "u514D">> THEN 2 ELSE 1)
        /\ Len(m) = 2 => (m[2].type = "text" /\ m[2].text = <<"text:special-topic">>)

\* C6 as claimed: a tag search that returns at least one valid record is
\* answered with the image (and the fixed text iff the tag is "罷免").
C6_AnyValidRecordGivesImage ==
    \A i \in EventIds :
        (/\ IsTagged(events[i])
         /\ \E k \in DOMAIN h[i].photos : ValidRecord(h[i].photos[k]))
            => Replied(h[i]) /\ TagImageShape(events[i], h[i])

\* C6 as amended: a tag search that returns records, of which the randomly
\* picked one is valid, is answered with one image built from the picked
\* record, followed by the fixed text if and only if the tag is exactly "罷免".
C6_ValidPickGivesImage ==
    \A i \in EventIds :
        (/\ IsTagged(events[i])
         /\ h[i].photos # <<>>
         /\ ValidRecord(h[i].randomPhoto))
            => /\ Replied(h[i]) /\ TagImageShape(events[i], h[i])
               /\ \E k \in DOMAIN h[i].photos : h[i].photos[k] = h[i].randomPhoto
               /\ Len(h[i].calls) = 2

\* the tag "罷免", a result with an invalid and a valid record, the valid one
\* picked: image and text
C6_Witness ==
    \E i \in EventIds :
        /\ IsTagged(events[i]) /\ h[i].tagToSearch = <<"u7F77", "u514D">>
        /\ h[i].photos = <<PBad, PA>> /\ h[i].randomPhoto = PA
        /\ Len(ReplyOf(h[i])) = 2 /\ h[i].pc = "resolved"

\* C7: on every path, no image is sent for a photo record whose path is
\* missing or does not start with /Photos/.
C7_NoImageOfInvalidRecord ==
    \A i \in EventIds : \A k \in DOMAIN h[i].calls :
        \A n \in DOMAIN h[i].calls[k].messages :
            LET m == h[i].calls[k].messages[n]
            IN  m.type = "image" =>
                    /\ ValidRecord(h[i].randomPhoto)
                    /\ m.originalContentUrl = ForcedHttps(photoBaseUrl \o h[i].randomPhoto.path)
                    /\ m.previewImageUrl = m.originalContentUrl
                    /\ Includes(m.originalContentUrl, <<"/Photos/">>)

\* an image sent from the free-text keyword loop, at its second keyword
C7_Witness ==
    \E i \in EventIds :
        /\ IsFreeText(events[i]) /\ h[i].kwIdx = 2 /\ Replied(h[i])
        /\ ReplyOf(h[i])[1].type = "image" /\ h[i].pc = "resolved"

\* C8 as claimed: the greeting with a non-empty catalog is answered with
\* exactly one image whose URL starts with https:// and is the base URL
\* followed by the chosen photo's path.
C8_NonEmptyCatalogGivesImage ==
    \A i \in EventIds :
        (IsGreeting(events[i]) /\ h[i].photos # <<>>)
            => /\ Replied(h[i]) /\ Len(ReplyOf(h[i])) = 1
               /\ ReplyOf(h[i])[1].type = "image"
               /\ ReplyOf(h[i])[1].originalContentUrl[1] = "https://"
               /\ ReplyOf(h[i])[1].originalContentUrl
                     = ForcedHttps(photoBaseUrl \o h[i].randomPhoto.path)

\* C8 as amended: the greeting with a non-empty catalog of which the randomly
\* chosen record is valid is answered with exactly one image; its URL is the
\* base URL followed by the chosen photo's path, with http:// made https://,
\* and starts with https:// when the base URL starts with http:// or https://.
C8_ValidPickGivesImage ==
    \A i \in EventIds :
        (IsGreeting(events[i]) /\ h[i].photos # <<>> /\ ValidRecord(h[i].randomPhoto))
            => /\ Replied(h[i]) /\ Len(h[i].calls) = 2
               /\ \E k \in DOMAIN h[i].photos : h[i].photos[k] = h[i].randomPhoto
               /\ ReplyOf(h[i]) =
                     <<ImageMessage(ForcedHttps(photoBaseUrl \o h[i].randomPhoto.path))>>
               /\ photoBaseUrl[1] \in {"http://", "https://"}
                     => ReplyOf(h[i])[1].originalContentUrl[1] = "https://"
               /\ photoBaseUrl[1] = "https://"
                     => ReplyOf(h[i])[1].originalContentUrl
                            = photoBaseUrl \o h[i].randomPhoto.path

\* the greeting, a base URL with http://, the second of two photos chosen
C8_Witness ==
    \E i \in EventIds :
        /\ IsGreeting(events[i]) /\ photoBaseUrl[1] = "http://"
        /\ h[i].photos = <<PA, PB>> /\ h[i].randomPhoto = PB
        /\ Replied(h[i]) /\ h[i].pc = "resolved"

\* C9 as claimed: the greeting whose list-all call returns nothing or fails is
\* answered with exactly one text, the same in all these cases (which is then
\* the text of the empty case).
C9_SameTextWhenEmptyOrFailing ==
    \A i \in EventIds :
        (IsGreeting(events[i]) /\ Len(h[i].calls) >= 2 /\ h[i].photos = <<>>)
            => ReplyOf(h[i]) = <<TextMessage(<<"text:no-photos">>)>>

\* C9 as amended: the greeting whose list-all call returns nothing or fails is
\* answered with exactly one text, fixed for each outcome: one for an empty
\* result, one for an error status, one for no response, one for other errors.
C9_FixedTextPerOutcome ==
    \A i \in EventIds :
        (IsGreeting(events[i]) /\ Len(h[i].calls) >= 2 /\ h[i].photos = <<>>)
            => /\ Replied(h[i]) /\ Len(h[i].calls) = 2
               /\ Len(ReplyOf(h[i])) = 1
               /\ ReplyOf(h[i])[1].type = "text"
               /\ ReplyOf(h[i])[1].text =
                     CASE h[i].error = "none" -> <<"text:no-photos">>
                       [] h[i].error = "errResponse" -> <<"text:greeting-error-status">>
                       [] h[i].error = "errRequest" -> <<"text:greeting-no-response">>
                       [] h[i].error = "errOther" -> <<"text:greeting-error">>

\* the greeting answered after the photo API gave no response
C9_Witness ==
    \E i \in EventIds :
        /\ IsGreeting(events[i]) /\ h[i].error = "errRequest"
        /\ Replied(h[i]) /\ h[i].pc = "resolved"

\* C10: a quote command from a supported source is answered with exactly one
\* text that is an element of the loaded quotes, and makes no photo call and
\* no generative call.
C10_QuoteCommandSendsQuote ==
    \A i \in EventIds :
        (IsQuoteCommand(events[i]) /\ h[i].pc # "start")
            => /\ Len(h[i].calls) = 1 /\ IsReplyCall(h[i].calls[1])
               /\ Len(ReplyOf(h[i])) = 1
               /\ ReplyOf(h[i])[1].type = "text"
               /\ \E k \in DOMAIN koreanYuQuotes : ReplyOf(h[i])[1].text = koreanYuQuotes[k]

\* a quote command of a group answered with the second of two loaded quotes
C10_Witness ==
    \E i \in EventIds :
        /\ IsQuoteCommand(events[i]) /\ events[i].sourceType = "group"
        /\ Len(koreanYuQuotes) = 2 /\ h[i].pc = "resolved"
        /\ ReplyOf(h[i])[1].text = koreanYuQuotes[2]

-----------------------------------------------------------------------------
\* the tag path with an empty tag search and no keyword to search: the calls
\* are the tag search, the keyword generation, the persona generation and,
\* once the persona call has returned, the reply
TagStraightToPersona(e, s) ==
    /\ IsTagged(e) /\ Len(s.calls) >= 3 /\ s.keywords = <<>>
    /\ s.calls[1].api = "photo.search" /\ s.calls[2].api = "gemini.keywords"
    /\ s.calls[3].api = "gemini.persona" /\ s.pc # "tagPersona"
PersonaLine(s) == s.calls[3].gen.text
PersonaSucceeded(s) == s.calls[3].gen.ok /\ Trim(PersonaLine(s)) # <<>>

\* C11 as claimed: after an empty tag search and an expansion without
\* keywords, a successful persona generation is answered with exactly one text
\* equal to the generated line, unmodified.
C11_PersonaLineUnmodified ==
    \A i \in EventIds :
        (TagStraightToPersona(events[i], h[i]) /\ PersonaSucceeded(h[i]))
            => ReplyOf(h[i]) = <<TextMessage(PersonaLine(h[i]))>>

\* C11 as amended: after an empty tag search and an expansion without
\* keywords, a successful persona generation is answered with exactly one text
\* equal to the generated line without its leading and trailing white space,
\* of the same length as the line between them (nothing is cut).
C11_PersonaLineTrimmed ==
    \A i \in EventIds :
        (TagStraightToPersona(events[i], h[i]) /\ PersonaSucceeded(h[i]))
            => /\ Replied(h[i]) /\ Len(h[i].calls) = 4
               /\ Len(ReplyOf(h[i])) = 1
               /\ ReplyOf(h[i])[1].type = "text"
               /\ ReplyOf(h[i])[1].text = TrimEnd(TrimStart(PersonaLine(h[i])))
               /\ \E a, b \in 0..Len(PersonaLine(h[i])) :
                     /\ PersonaLine(h[i]) =
                            [k \in 1..a |-> " "] \o ReplyOf(h[i])[1].text \o [k \in 1..b |-> " "]

\* the model answered " 好話 " and "好話" was replied
C11_Witness ==
    \E i \in EventIds :
        /\ TagStraightToPersona(events[i], h[i])
        /\ PersonaLine(h[i]) = <<" ", "u597D", "u8A71", " ">>
        /\ ReplyOf(h[i]) = <<TextMessage(<<"u597D", "u8A71">>)>>
        /\ h[i].pc = "resolved"

\* C12: after an empty tag search and an expansion without keywords, a persona
\* generation that fails or returns a blank string is answered with exactly
\* one text, the template "院長沒有在跟你<tag>的啦！" with the tag of the command.
C12_PersonaFailureGivesTemplate ==
    \A i \in EventIds :
        (TagStraightToPersona(events[i], h[i]) /\ ~PersonaSucceeded(h[i]))
            => /\ Replied(h[i]) /\ Len(h[i].calls) = 4
               /\ Len(ReplyOf(h[i])) = 1
               /\ ReplyOf(h[i])[1].type = "text"
               /\ ReplyOf(h[i])[1].text =
                     <<"text:fallback<">> \o TagOf(events[i]) \o <<">">>

\* the model answered a blank line to "院長  罷免 ": the template with "罷免"
C12_Witness ==
    \E i \in EventIds :
        /\ TagStraightToPersona(events[i], h[i])
        /\ events[i].text = <<"u9662", "u9577", " ", " ", "u7F77", "u514D", " ">>
        /\ h[i].calls[3].gen.ok /\ PersonaLine(h[i]) = <<" ">>
        /\ ReplyOf(h[i])[1].text = <<"text:fallback<", "u7F77", "u514D", ">">>
        /\ h[i].pc = "resolved"

-----------------------------------------------------------------------------
\* the free-text path after the direct search gave nothing usable
FreeExpanded(e, s) ==
    /\ IsFreeText(e) /\ e.sourceType = "user"
    /\ Len(s.calls) >= 2 /\ s.calls[2].api = "gemini.keywords" /\ s.pc # "freeKeywords"

\* C13: whatever the generative model returns, the keyword list is cut to its
\* maximum count: within one event at most 3 candidate keywords are searched
\* on the tag path and at most 10 on the free-text path.
C13_KeywordCountBounded ==
    \A i \in EventIds :
        /\ TagExpanded(events[i], h[i]) =>
              Len(h[i].keywords) <= 3 /\ Len(KeywordSearches(h[i])) <= 3
        /\ FreeExpanded(events[i], h[i]) =>
              Len(h[i].keywords) <= 10 /\ Len(KeywordSearches(h[i])) <= 10

\* C14: in both expansion modes no candidate keyword that equals or contains
\* the phrase "韓國瑜" is used as the term of a photo search.
C14_DeniedPhraseNeverSearched ==
    \A i \in EventIds :
        (TagExpanded(events[i], h[i]) \/ FreeExpanded(events[i], h[i])) =>
            /\ \A k \in DOMAIN h[i].keywords :
                  ~Includes(h[i].keywords[k], <<"u97D3", "u570B", "u745C">>)
            /\ \A k \in DOMAIN KeywordSearches(h[i]) :
                  ~Includes(KeywordSearches(h[i])[k].arg, <<"u97D3", "u570B", "u745C">>)

-----------------------------------------------------------------------------
\* C15: free text that is neither the greeting, nor a quote command, nor a
\* tagged command, coming from a group or a room, is suppressed: the
\* activation makes no reply, no photo call and no generative call.
C15_GroupFreeTextSuppressed ==
    \A i \in EventIds :
        (IsFreeText(events[i]) /\ events[i].sourceType \in {"group", "room"})
            => h[i].calls = <<>> /\ h[i].pc \in {"start", "resolved"}

\* "罷免" said in a group, handled
C15_Witness ==
    \E i \in EventIds :
        /\ events[i].type = "message" /\ events[i].messageType = "text"
        /\ events[i].text = <<"u7F77", "u514D">> /\ events[i].sourceType = "group"
        /\ h[i].pc = "resolved" /\ h[i].messageText = <<"u7F77", "u514D">>

-----------------------------------------------------------------------------
\* the calls issued so far stay issued, and only the awaited one changes (it settles)
CallsKept(s, t) ==
    /\ Len(s.calls) <= Len(t.calls)
    /\ \A k \in DOMAIN s.calls :
          /\ t.calls[k].api = s.calls[k].api
          /\ t.calls[k].arg = s.calls[k].arg
          /\ t.calls[k].messages = s.calls[k].messages

\* C16: the events of a batch are independent tasks. When the handler of one
\* event fails and the webhook answers 500, no reply of a sibling event is
\* retracted or cancelled (the answer leaves every activation as it is, and a
\* call once issued stays issued), and every sibling that is to reply still
\* dispatches its own reply and ends.
C16_SiblingsUnaffectedByFailure ==
    /\ [][(res' = "500" /\ res # "500") => h' = h]_vars
    /\ [][\A i \in 1..BatchSize : CallsKept(h[i], h'[i])]_vars
    /\ \A i \in 1..BatchSize :
          [](res = "500" =>
                <>(/\ Finished(h[i])
                   /\ ExpectsReply(events[i]) => Replied(h[i])))

\* the reply of the first event failed and the webhook answered 500; the
\* second event, a greeting, has been answered with its image
C16_Witness ==
    /\ res = "500" /\ h[1].pc = "rejected"
    /\ IsGreeting(events[2]) /\ h[2].pc = "resolved"
    /\ Replied(h[2]) /\ ReplyOf(h[2])[1].type = "image"

\* C17: when the chain of one event hangs on a call that never returns, every
\* other event of the batch still runs to its reply or to its suppression, and
\* no activation that has not ended waits for anything but its own call.
C17_HangDoesNotBlockSiblings ==
    /\ [](\A i \in 1..BatchSize : ~Finished(h[i]) => ENABLED BatchStep(i))
    /\ \A i \in 2..BatchSize :
          <>(/\ Finished(h[i])
             /\ ExpectsReply(events[i]) => Replied(h[i])
             /\ ~ExpectsReply(events[i]) => h[i].calls = <<>>)

\* the list-all call of the first event has not returned; the second event, a
\* quote command, has been answered
C17_Witness ==
    /\ IsGreeting(events[1]) /\ h[1].pc = "greeting" /\ h[1].inflight = 1
    /\ IsQuoteCommand(events[2]) /\ h[2].pc = "resolved" /\ Replied(h[2])
    /\ res = "pending"

-----------------------------------------------------------------------------
\* the outcomes of loading that are failures: no file, text that does not
\* parse, a parsed value that is no array, an empty array
LoadingFailed(file) ==
    \/ ~file.exists
    \/ file.json \in {"invalid", "object"}
    \/ file.json = "array" /\ file.items = <<>>

\* C18: whatever the outcome of loading quotes.json, the quotes are not empty
\* after startup; in every failure case they are exactly the one default
\* quote "莫忘世上苦人多", otherwise the array of the file; the outcome of
\* loading is always a sequence (nothing is raised).
C18_QuotesLoadedFailSoft ==
    /\ Len(koreanYuQuotes) >= 1
    /\ DOMAIN koreanYuQuotes = 1..Len(koreanYuQuotes)
    /\ LoadingFailed(quotesFile) => koreanYuQuotes = << <<"quote:default">> >>
    /\ ~LoadingFailed(quotesFile) => koreanYuQuotes = quotesFile.items

\* quotes.json holds an empty array, and a quote command was answered with
\* the default quote
C18_Witness ==
    /\ quotesFile.exists /\ quotesFile.json = "array" /\ quotesFile.items = <<>>
    /\ \E i \in EventIds :
          /\ IsQuoteCommand(events[i]) /\ h[i].pc = "resolved"
          /\ ReplyOf(h[i]) = <<TextMessage(<<"quote:default">>)>>

-----------------------------------------------------------------------------
\* the error text of the tag search for each class of fetch error
TagErrorTextOf(kind, tag) ==
    <<"text:tag-error<">> \o tag \o
        << CASE kind = "errResponse" -> ">error-status"
             [] kind = "errRequest" -> ">no-response"
             [] kind = "errOther" -> ">other" >>

\* C19: on the tag path a fetch error of the tag search ends the activation:
\* the one reply is one text, the error text of the class of the error (error
\* status, no response, other: three different texts, each holding the tag),
\* and no keyword expansion, no other search and no persona generation is made.
C19_TagSearchErrorIsTerminal ==
    \A i \in EventIds :
        (IsTagged(events[i]) /\ h[i].error \in {"errResponse", "errRequest", "errOther"})
            => /\ Len(h[i].calls) = 2
               /\ h[i].calls[1].api = "photo.search" /\ h[i].calls[1].arg = TagOf(events[i])
               /\ h[i].calls[2].api = "line.reply"
               /\ h[i].pc \in {"reply", "resolved", "rejected"}
               /\ h[i].keywords = <<>> /\ h[i].kwIdx = 0
               /\ ReplyOf(h[i]) = <<TextMessage(TagErrorTextOf(h[i].error, TagOf(events[i])))>>
               /\ Includes(ReplyOf(h[i])[1].text, TagOf(events[i]))
               /\ \A k \in {"errResponse", "errRequest", "errOther"} \ {h[i].error} :
                     ReplyOf(h[i])[1].text # TagErrorTextOf(k, TagOf(events[i]))

\* the search of the tag "罷免" got an error status and was answered
C19_Witness ==
    \E i \in EventIds :
        /\ IsTagged(events[i]) /\ h[i].error = "errResponse"
        /\ h[i].tagToSearch = <<"u7F77", "u514D">>
        /\ ReplyOf(h[i])[1].text = <<"text:tag-error<", "u7F77", "u514D", ">error-status">>
        /\ h[i].pc = "resolved"

\* C20: in the keyword loop of the tag path and of the free-text path, a
\* search that throws or whose picked record has no valid path does not end
\* the loop and makes no reply: the next step is the search of the next
\* keyword, or, after the last keyword, the persona generation.
C20_LoopGoesOnAfterError ==
    [][\A i \in EventIds :
          LET s == h[i]
              t == h'[i]
              last == t.calls[Len(t.calls)]
          IN  (/\ s.pc \in {"tagKwSearch", "freeKwSearch"} /\ t # s
               /\ t.miss \in {"error", "invalid"})
                  => /\ ReplyCalls(t) = <<>> /\ t.error = "none"
                     /\ Len(t.calls) = Len(s.calls) + 1
                     /\ t.keywords = s.keywords
                     /\ IF s.kwIdx < Len(s.keywords)
                        THEN /\ t.pc = s.pc /\ t.kwIdx = s.kwIdx + 1
                             /\ last.api = "photo.search"
                             /\ last.arg = s.keywords[s.kwIdx + 1]
                        ELSE /\ t.pc = (IF s.pc = "tagKwSearch" THEN "tagPersona"
                                                                 ELSE "freePersona")
                             /\ t.kwIdx = s.kwIdx
                             /\ last.api = "gemini.persona"
      ]_vars

\* tag path: the search of the first keyword threw, and the second keyword is
\* being searched
C20_Witness ==
    \E i \in EventIds :
        /\ TagExpanded(events[i], h[i]) /\ Len(h[i].keywords) = 2
        /\ h[i].pc = "tagKwSearch" /\ h[i].miss = "error" /\ h[i].kwIdx = 2
        /\ Len(KeywordSearches(h[i])) = 2 /\ ReplyCalls(h[i]) = <<>>
        /\ h[i].inflight = 1

-----------------------------------------------------------------------------
\* free text of a user
IsUserFreeText(e) == IsFreeText(e) /\ e.sourceType = "user"

\* the step after the direct search returned goes on to the keyword
\* generation for the raw text, without a reply
GoesOnToExpansion(s, t) ==
    /\ t.pc = "freeKeywords" /\ t.error = "none"
    /\ ReplyCalls(t) = <<>>
    /\ Len(t.calls) = 2
    /\ t.calls[1].api = "photo.search" /\ t.calls[1].arg = s.messageText
    /\ t.calls[2].api = "gemini.keywords" /\ t.calls[2].arg = s.messageText

\* the error texts of the photo calls
IsFetchErrorText(text) ==
    \/ text \in {<<"text:greeting-error">>, <<"text:greeting-error-status">>,
                 <<"text:greeting-no-response">>}
    \/ text # <<>> /\ text[1] = "text:tag-error<"

\* C21: for free text of a user, a transport failure of the direct search is
\* swallowed: the next step is the keyword generation for the raw text, no
\* reply is made for it, and no reply of this path is a fetch error text.
C21_DirectSearchErrorSwallowed ==
    /\ [][\A i \in EventIds :
            (h[i].pc = "directSearch" /\ h'[i] # h[i] /\ h'[i].miss = "error")
                => IsUserFreeText(events[i]) /\ GoesOnToExpansion(h[i], h'[i])]_vars
    /\ [](\A i \in EventIds :
            IsUserFreeText(events[i]) =>
                /\ h[i].error \notin {"errResponse", "errRequest", "errOther"}
                /\ \A k \in DOMAIN h[i].calls : \A n \in DOMAIN h[i].calls[k].messages :
                      ~IsFetchErrorText(h[i].calls[k].messages[n].text))

\* the direct search of "ab" threw, and the keywords are asked for
C21_Witness ==
    \E i \in EventIds :
        /\ IsUserFreeText(events[i]) /\ h[i].messageText = <<"a", "b">>
        /\ h[i].pc = "freeKeywords" /\ h[i].miss = "error"
        /\ Len(h[i].calls) = 2 /\ h[i].inflight = 1

-----------------------------------------------------------------------------
\* the tag path answered with the photo of a candidate keyword
KeywordPhotoReplied(e, s) ==
    /\ TagExpanded(e, s) /\ Replied(s)
    /\ KeywordSearches(s) # <<>>
    /\ KeywordSearches(s)[Len(KeywordSearches(s))].hit

\* C22: on the tag path, when the image comes from a candidate keyword, the
\* fixed special-topic text follows the image if and only if the tag of the
\* command is exactly "罷免"; the keyword that gave the photo has no part in it.
C22_SpecialTextKeyedOnTag ==
    \A i \in EventIds :
        KeywordPhotoReplied(events[i], h[i]) =>
            LET m == ReplyOf(h[i])
                special == TagOf(events[i]) = <<"u7F77", "u514D">>
            IN  /\ m[1].type = "image"
                /\ Len(m) = (IF special THEN 2 ELSE 1)
                /\ special => m[2] = TextMessage(<<"text:special-topic">>)
                /\ \A n \in DOMAIN m : n > 1 => special

\* the tag "罷免案" answered with the photo found for the keyword "罷免": the
\* image alone
C22_Witness ==
    \E i \in EventIds :
        /\ KeywordPhotoReplied(events[i], h[i])
        /\ TagOf(events[i]) = <<"u7F77", "u514D", "u6848">>
        /\ h[i].keywords[h[i].kwIdx] = <<"u7F77", "u514D">>
        /\ Len(ReplyOf(h[i])) = 1 /\ h[i].pc = "resolved"

-----------------------------------------------------------------------------
\* C23: every reply made for free text of a user, and every reply made for
\* the greeting, has exactly one payload; the special-topic text is never
\* sent there, not even when the message is "罷免" itself.
C23_OnePayloadOffTagPath ==
    \A i \in EventIds :
        (IsUserFreeText(events[i]) \/ IsGreeting(events[i])) =>
            \A k \in DOMAIN h[i].calls :
                IsReplyCall(h[i].calls[k]) =>
                    /\ Len(h[i].calls[k].messages) = 1
                    /\ h[i].calls[k].messages[1].text # <<"text:special-topic">>

\* the message "罷免" of a user answered with the photo of its first keyword
C23_Witness ==
    \E i \in EventIds :
        /\ IsUserFreeText(events[i]) /\ TrimmedText(events[i]) = <<"u7F77", "u514D">>
        /\ h[i].kwIdx = 1 /\ Replied(h[i]) /\ h[i].pc = "resolved"
        /\ ReplyOf(h[i]) = <<ImageMessage(ForcedHttps(photoBaseUrl \o h[i].randomPhoto.path))>>

-----------------------------------------------------------------------------
\* a record, not a null element, whose path is missing or outside /Photos/
InvalidRecord(p) == ~p.null /\ ~ValidRecord(p)

\* C24: on the tag path a tag search that returns records of which the picked
\* one has no valid path is answered with the fixed error text and nothing
\* else is tried; on the free-text path of a user the same outcome of the
\* direct search makes no reply and goes on to the keyword generation.
C24_InvalidPickPerPath ==
    /\ [](\A i \in EventIds :
            (IsTagged(events[i]) /\ h[i].photos # <<>> /\ InvalidRecord(h[i].randomPhoto))
                => /\ Len(h[i].calls) = 2
                   /\ h[i].calls[1].api = "photo.search" /\ h[i].calls[2].api = "line.reply"
                   /\ ReplyOf(h[i]) = <<TextMessage(<<"text:bad-path-format">>)>>
                   /\ h[i].pc \in {"reply", "resolved", "rejected"}
                   /\ h[i].keywords = <<>> /\ h[i].kwIdx = 0)
    /\ [][\A i \in EventIds :
            (h[i].pc = "directSearch" /\ h'[i] # h[i] /\ h'[i].miss = "invalid")
                => IsUserFreeText(events[i]) /\ GoesOnToExpansion(h[i], h'[i])]_vars
    /\ [][\A i \in EventIds :
            (h[i].pc = "tagSearch" /\ h'[i] # h[i])
                => h'[i].miss = "none" /\ h'[i].pc \in {"reply", "tagKeywords"}]_vars

\* the search of the tag "罷免" returned one record with a path outside
\* /Photos/: the error text
C24_Witness ==
    \E i \in EventIds :
        /\ IsTagged(events[i]) /\ h[i].tagToSearch = <<"u7F77", "u514D">>
        /\ h[i].photos = <<PBad>> /\ h[i].randomPhoto = PBad
        /\ ReplyOf(h[i]) = <<TextMessage(<<"text:bad-path-format">>)>>
        /\ h[i].pc = "resolved"

-----------------------------------------------------------------------------
\* the photo searches of an activation, and its calls of one API
Searches(s) == SelectSeq(s.calls, IsSearchCall)
CallsOf(s, api) == {k \in DOMAIN s.calls : s.calls[k].api = api}

\* C25 as claimed: within one event the photo catalog is never searched twice
\* with the same term, whatever the generative model returns.
C25_NoTermSearchedTwice ==
    \A i \in EventIds :
        \A j, k \in DOMAIN Searches(h[i]) :
            j # k => Searches(h[i])[j].arg # Searches(h[i])[k].arg

\* C25 as amended: within one event no call is made again. The tag or the raw
\* text is searched once, then the keywords of the list once each, in the
\* order of the list (a term is searched twice only where the list holds it
\* twice or holds the tag or raw text); the list-all call, the keyword
\* generation, the persona generation and the reply are made at most once.
C25_NoCallMadeAgain ==
    \A i \in EventIds :
        LET s == h[i]
            searches == Searches(s)
            first == IF s.tagToSearch # <<>> THEN s.tagToSearch ELSE s.messageText
        IN  /\ searches # <<>> =>
                  /\ searches[1].arg = first
                  /\ Len(searches) = 1 + s.kwIdx
                  /\ s.kwIdx <= Len(s.keywords)
                  /\ \A j \in 1..s.kwIdx : searches[j + 1].arg = s.keywords[j]
            /\ \A j, k \in DOMAIN searches :
                  (j < k /\ searches[j].arg = searches[k].arg) =>
                      (<<first>> \o s.keywords)[j] = (<<first>> \o s.keywords)[k]
            /\ \A api \in {"photo.list", "gemini.keywords", "gemini.persona", "line.reply"} :
                  Cardinality(CallsOf(s, api)) <= 1

\* the model answered "甲,甲": each of the two keywords was searched once, so
\* the term "甲" twice
C25_Witness ==
    \E i \in EventIds :
        /\ h[i].keywords = << <<"u7532">>, <<"u7532">> >> /\ h[i].kwIdx = 2
        /\ Len(Searches(h[i])) = 3
        /\ Searches(h[i])[2].arg = Searches(h[i])[3].arg
        /\ h[i].pc \in {"tagPersona", "freePersona"}

-----------------------------------------------------------------------------
\* a text message of a supported source whose trimmed text starts with a
\* lead-in and is neither the greeting nor a quote command
HasLeadIn(e) ==
    /\ IsTextEvent(e) /\ FromSupported(e) /\ ~IsGreeting(e) /\ ~IsQuoteCommand(e)
    /\ Len(TrimmedText(e)) >= 3
    /\ SubSeq(TrimmedText(e), 1, 3) \in {<<"u9662", "u9577", "uFF0C">>, <<"u9662", "u9577", " ">>}

\* the first call is the photo search of the tag, and the activation is
\* never in the free-text branch
RoutedAsTagged(e, s) ==
    /\ s.calls # <<>>
    /\ s.calls[1].api = "photo.search" /\ s.calls[1].arg = TagOf(e)
    /\ s.tagToSearch = TagOf(e)
    /\ s.pc \notin {"directSearch", "freeKeywords", "freeKwSearch", "freePersona"}
    /\ \A k \in DOMAIN s.calls : s.calls[k].api = "gemini.keywords" => s.calls[k].arg = TagOf(e)

\* C26 as claimed: a trimmed text that starts with a lead-in and is neither
\* the greeting nor a quote command is always handled as a tagged command,
\* from every supported source.
C26_LeadInAlwaysTagged ==
    \A i \in EventIds :
        (HasLeadIn(events[i]) /\ h[i].pc # "start") => RoutedAsTagged(events[i], h[i])

\* C26 as amended: such a text is handled as a tagged command, from every
\* supported source, if and only if something other than white space follows
\* the lead-in; the lead-in alone is free text (searched as raw text for a
\* user, suppressed for a group or a room).
C26_LeadInWithTagIsTagged ==
    \A i \in EventIds :
        (HasLeadIn(events[i]) /\ h[i].pc # "start") =>
            IF TagOf(events[i]) # <<>>
            THEN RoutedAsTagged(events[i], h[i])
            ELSE /\ h[i].tagToSearch = <<>>
                 /\ IF events[i].sourceType = "user"
                    THEN /\ h[i].calls[1].api = "photo.search"
                         /\ h[i].calls[1].arg = TrimmedText(events[i])
                    ELSE h[i].calls = <<>> /\ h[i].pc = "resolved"

\* "院長 金句" of a room: the tag "金句" was searched and expanded
C26_Witness ==
    \E i \in EventIds :
        /\ HasLeadIn(events[i]) /\ events[i].sourceType = "room"
        /\ TrimmedText(events[i]) = <<"u9662", "u9577", " ", "u91D1", "u53E5">>
        /\ Len(h[i].calls) >= 2 /\ h[i].calls[2].api = "gemini.keywords"
        /\ h[i].calls[1].arg = <<"u91D1", "u53E5">>

-----------------------------------------------------------------------------
\* the places where an activation is suspended on a call
AwaitingPcs ==
    {"greeting", "tagSearch", "tagKeywords", "tagKwSearch", "tagPersona",
     "directSearch", "freeKeywords", "freeKwSearch", "freePersona", "reply"}

\* C27: the processing of an event is sequential. At most one call of the
\* event is in flight at any moment, and it is the one issued last; the
\* persona generation is made at most once, after the first search gave no
\* photo to reply, after every keyword of the list was searched without a
\* photo to reply, and before any reply.
C27_SequentialChain ==
    \A i \in EventIds :
        LET s == h[i]
            persona == CallsOf(s, "gemini.persona")
        IN  /\ s.inflight \in {0, 1}
            /\ s.inflight = 1 <=> s.pc \in AwaitingPcs
            /\ s.inflight = 1 => s.calls # <<>>
            /\ Cardinality(persona) <= 1
            /\ \A k \in persona :
                  /\ k = 3 + Len(s.keywords)
                  /\ s.calls[1].api = "photo.search" /\ ~s.calls[1].hit
                  /\ s.calls[2].api = "gemini.keywords"
                  /\ s.kwIdx = Len(s.keywords)
                  /\ \A j \in 1..Len(s.keywords) :
                        /\ s.calls[2 + j].api = "photo.search"
                        /\ s.calls[2 + j].arg = s.keywords[j]
                        /\ ~s.calls[2 + j].hit
                  /\ \A j \in 1..k : ~IsReplyCall(s.calls[j])
                  /\ Len(s.calls) <= k + 1

\* tag path: the three keywords were searched in vain, and the persona
\* generation is the one call in flight
C27_Witness ==
    \E i \in EventIds :
        /\ IsTagged(events[i]) /\ Len(h[i].keywords) = 3 /\ h[i].kwIdx = 3
        /\ h[i].pc = "tagPersona" /\ h[i].inflight = 1
        /\ Len(h[i].calls) = 6 /\ h[i].calls[6].api = "gemini.persona"

-----------------------------------------------------------------------------
\* C28: for the greeting, the quote commands and the tagged commands, the
\* same text with the same answers of the external calls gives the same calls
\* and the same reply payloads from a user, a group and a room; the two
\* deliveries differ only for unmatched free text, between a user and a group
\* or a room.
C28_SourceKindIndependent ==
    /\ (IsGreeting(events[1]) \/ IsQuoteCommand(events[1]) \/ IsTagged(events[1]))
          => /\ h[1] = h[2]
             /\ ReplyCalls(h[1]) = ReplyCalls(h[2])
    /\ h[1] # h[2]
          => /\ IsFreeText(events[1])
             /\ (events[1].sourceType = "user") # (events[2].sourceType = "user")

\* "院長，罷免" of a user and of a group, answered with the same image and text
C28_Witness ==
    /\ events[1].sourceType = "user" /\ events[2].sourceType = "group"
    /\ IsTagged(events[1]) /\ TagOf(events[1]) = <<"u7F77", "u514D">>
    /\ h[1].pc = "resolved" /\ h[2].pc = "resolved"
    /\ Len(ReplyOf(h[1])) = 2 /\ ReplyOf(h[1]) = ReplyOf(h[2])

====
